---- MODULE Spec2Model ----
(***************************************************************************)
(* Model of the tf-serve image classification pipeline (ImageClassifier,   *)
(* Timer) and of the HTTP adapters built on it.                            *)
(*                                                                         *)
(* Three specifications share the actions below:                           *)
(*   Spec        one call in flight, the wall clock moving, the two HTTP   *)
(*               adapters included;                                        *)
(*   SpecShared  NumCalls overlapping library calls on one classifier;     *)
(*   SpecTag     get_tag alone, on every output vector and tags file of    *)
(*               the bounded sets.                                         *)
(***************************************************************************)
EXTENDS Integers, Sequences, FiniteSets, TLC

VARIABLES
    classifier,   \* the ImageClassifier: graph, session, tags
    fs,           \* the file system: path -> [exists, lines]
    now,          \* the wall clock read by Utc::now(), in clock units
    mono,         \* real elapsed time, in clock units (not visible to the code)
    calls,        \* per call slot: position in the pipeline, locals, result
    built         \* the value ImageClassifier::new returned (never assigned again)

vars == <<classifier, fs, now, mono, calls, built>>

(***************************** bounds **************************************)
MaxVecLen == 3
MaxVal == 2
MaxLines == 3
MaxClock == 2
NumCalls == 2
\* Clock units per millisecond: the clock is finer than the reported durations.
UnitsPerMs == 2

(************************* Option / Result *********************************)
None == <<>>
Some(x) == <<x>>
IsSome(o) == o # <<>>
Unwrap(o) == o[1]
UnwrapOr(o, d) == IF o = None THEN d ELSE o[1]

(***************************** f32 *****************************************)
\* f32 values are coded as naturals; NaN is a code of its own that is only
\* inspected through IsNaN.
NaN == -1
IsNaN(x) == x = NaN
F32 == (0..MaxVal) \cup {NaN}

\* f32::partial_cmp: None when either side is NaN.
PartialCmp(a, b) ==
    IF IsNaN(a) \/ IsNaN(b) THEN None
    ELSE IF a < b THEN Some("Less")
    ELSE IF a = b THEN Some("Equal")
    ELSE Some("Greater")

\* The comparison closure of get_tag, on (index, value) pairs.
Compare(x, y) == UnwrapOr(PartialCmp(x[2], y[2]), "Equal")

\* A mutant: keep the accumulator unless the next element is strictly greater.
MaxByFold_first(x, y) == IF Compare(x, y) = "Less" THEN y ELSE x

\* Iterator::max_by's fold step: keep x only when it compares Greater.
MaxByFold(x, y) == IF Compare(x, y) = "Greater" THEN x ELSE y

RECURSIVE Reduce(_, _)
Reduce(acc, rest) ==
    IF rest = <<>> THEN acc ELSE Reduce(MaxByFold(acc, Head(rest)), Tail(rest))

\* tensor.iter().enumerate(): zero-based (index, value) pairs.
Enumerate(v) == [i \in 1..Len(v) |-> <<i - 1, v[i]>>]

\* .max_by(..): None on an empty iterator.
MaxBy(v) ==
    IF v = <<>> THEN None
    ELSE Some(Reduce(Head(Enumerate(v)), Tail(Enumerate(v))))

(*************************** tags file *************************************)
Labels == {"cat", "dog", "bird"}
\* A line whose bytes are not valid UTF-8.
BadLine == "<invalid utf-8>"
LineVals == Labels \cup {BadLine}

\* BufReader::lines(): one item per line; an undecodable line is an Err item
\* and its bytes are consumed, so the iterator goes on with the next line.
LinesOf(lines) ==
    [i \in 1..Len(lines) |->
        IF lines[i] = BadLine THEN <<"Err", "InvalidData">> ELSE <<"Ok", lines[i]>>]

\* A mutant: the scan gives up at the first item that is an Err.
RECURSIVE IterNth_strict(_, _)
IterNth_strict(items, n) ==
    IF items = <<>> THEN None
    ELSE IF Head(items)[1] = "Err" THEN Some(Head(items))
    ELSE IF n = 0 THEN Some(Head(items))
    ELSE IterNth_strict(Tail(items), n - 1)

\* A mutant: the index is taken one-based.
RECURSIVE IterNth_offby1(_, _)
IterNth_offby1(items, n) ==
    IF items = <<>> THEN None
    ELSE IF n <= 1 THEN Some(Head(items))
    ELSE IterNth_offby1(Tail(items), n - 1)

\* Iterator::nth(n): drops n items, whatever they are, and returns the next.
RECURSIVE IterNth(_, _)
IterNth(items, n) ==
    IF items = <<>> THEN None
    ELSE IF n = 0 THEN Some(Head(items))
    ELSE IterNth(Tail(items), n - 1)

(************************** Classification *********************************)
\* #[derive(Default)]
DefaultClassification ==
    [tag |-> "", probability |-> 0, time_url_fetch |-> 0, time_image_load |-> 0,
     time_image_resize |-> 0, time_session_run |-> 0]

Ok(cls) == [kind |-> "Ok", code |-> "", cls |-> Some(cls)]
Err(code) == [kind |-> "Err", code |-> code, cls |-> None]
Panic(msg) == [kind |-> "Panic", code |-> msg, cls |-> None]
NoResult == [kind |-> "None", code |-> "", cls |-> None]

NoFile == [exists |-> FALSE, lines |-> <<>>]
File(lines) == [exists |-> TRUE, lines |-> lines]

\* ImageClassifier::get_tag
GetTag(self, fsys, tensor) ==
    IF ~fsys[self.tags].exists THEN Err("NotFound: Could not open tags file")
    ELSE LET best == MaxBy(tensor) IN
         IF best = None THEN Panic("unwrap on None: empty tensor")
         ELSE LET item == IterNth(LinesOf(fsys[self.tags].lines), Unwrap(best)[1]) IN
              IF item = None THEN Panic("unwrap on None: no such line")
              ELSE IF Unwrap(item)[1] = "Err" THEN Panic("unwrap on Err: InvalidData")
              ELSE Ok([DefaultClassification EXCEPT
                         !.tag = Unwrap(item)[2],
                         !.probability = Unwrap(best)[2]])

(******************************* Timer *************************************)
\* Timer::new
TimerNew == [tstamp |-> None, duration |-> None]

\* Timer::start, with the value Utc::now() returns
TimerStart(t, clock) == [t EXCEPT !.tstamp = Some(clock), !.duration = None]

\* Timer::new_start
TimerNewStart(clock) == TimerStart(TimerNew, clock)

\* Timer::stop: Utc::now() - tstamp, a signed chrono::Duration
TimerStop(t, clock) ==
    IF t.tstamp = None THEN t
    ELSE [t EXCEPT !.duration = Some(clock - Unwrap(t.tstamp)), !.tstamp = None]

\* Duration::num_milliseconds: whole milliseconds, truncated toward zero
NumMilliseconds(d) ==
    IF d >= 0 THEN d \div UnitsPerMs ELSE 0 - ((0 - d) \div UnitsPerMs)

\* Timer::duration
TimerDuration(t) ==
    IF t.duration = None THEN 0 ELSE NumMilliseconds(Unwrap(t.duration))

(************************* the world outside *******************************)
Urls == {"http://bad-host-unreachable", "http://img/dog.png", "http://img/gone",
         "http://img/gone-placeholder", "http://img/cut-short"}

\* What the network does for a GET of each URL: whether a response arrives,
\* its status, its body, and whether the body can be read to the end.
Net(url) ==
    CASE url = "http://bad-host-unreachable" ->
           [connect |-> FALSE, status |-> 0, body |-> "", readOk |-> FALSE]
      [] url = "http://img/dog.png" ->
           [connect |-> TRUE, status |-> 200, body |-> "png:dog", readOk |-> TRUE]
      [] url = "http://img/gone" ->
           [connect |-> TRUE, status |-> 404, body |-> "html:not found", readOk |-> TRUE]
      [] url = "http://img/gone-placeholder" ->
           [connect |-> TRUE, status |-> 404, body |-> "png:bird", readOk |-> TRUE]
      [] OTHER ->
           [connect |-> TRUE, status |-> 200, body |-> "png:dog", readOk |-> FALSE]

IsSuccessStatus(st) == st >= 200 /\ st <= 299

ByteBufs == {"png:dog", "png:bird", "png:tie", "html:not found"}
Images == {"dog", "bird", "tie", "nan", "unrunnable"}

\* image::load_from_memory: the decoded image, or None for undecodable bytes
LoadFromMemory(data) ==
    CASE data = "png:dog" -> Some("dog")
      [] data = "png:bird" -> Some("bird")
      [] data = "png:tie" -> Some("tie")
      [] OTHER -> None

Side == 224
Channels == 3
ByteMax == 255
\* Tensor::new(&[1, 224, 224, 3]): the number of values the tensor holds
TensorLen == 1 * Side * Side * Channels

\* to_rgb, resize to 224 x 224, x / 255: a slice of 224*224*3 floats in [0, 1]
Preprocess(image) == [len |-> Side * Side * Channels, px |-> image, scale |-> ByteMax]

Slices == {Preprocess(i) : i \in {"dog", "nan", "unrunnable"}}
            \cup {[len |-> Side, px |-> "dog", scale |-> ByteMax]}

FullGraph == {"serving_default_input_1", "StatefulPartitionedCall"}
NoInputGraph == {"StatefulPartitionedCall"}
NoOutputGraph == {"serving_default_input_1"}

\* session.run + args.fetch for the one model of the deployments: the output
\* vector (tenths), or None when the run fails.
Forward(session, px) ==
    CASE px = "dog" -> Some(<<1, 7, 2>>)
      [] px = "bird" -> Some(<<0, 1, 2>>)
      [] px = "tie" -> Some(<<2, 2, 0>>)
      [] px = "nan" -> Some(<<1, NaN, 0>>)
      [] OTHER -> None

Paths == {"labels3.txt", "labels2.txt", "labelsbad.txt", "missing.txt"}

DeployedFS ==
    [p \in Paths |->
        CASE p = "labels3.txt" -> File(<<"cat", "dog", "bird">>)
          [] p = "labels2.txt" -> File(<<"cat", "dog">>)
          [] p = "labelsbad.txt" -> File(<<BadLine, "dog", "bird">>)
          [] OTHER -> NoFile]

\* ImageClassifier::new, for the deployments considered
New(graph, tags_path) == [graph |-> graph, session |-> "resnet", tags |-> tags_path]

Deployments ==
    {New(FullGraph, p) : p \in Paths}
        \cup {New(NoInputGraph, "labels3.txt"), New(NoOutputGraph, "labels3.txt")}

(****************************** stages *************************************)
\* classify_from_url, lines 210-215: reqwest::get, then copy_to
FetchStage(url) ==
    IF ~Net(url).connect THEN Err("NotFound: Invalid URL")
    ELSE IF ~Net(url).readOk THEN Err("DataLoss: Could not read image from URL")
    ELSE [kind |-> "Ok", code |-> "", cls |-> Some(Net(url).body)]

\* classify_from_raw, lines 195-197
DecodeStage(data) ==
    IF LoadFromMemory(data) = None
    THEN Err("InvalidArgument: Could create image from raw data")
    ELSE [kind |-> "Ok", code |-> "", cls |-> LoadFromMemory(data)]

\* run, lines 138-160
ExecuteStage(self, slice) ==
    IF slice.len # TensorLen THEN Panic("Bad image size")
    ELSE IF "serving_default_input_1" \notin self.graph
    THEN Err("Unavailable: serving_default_input_1")
    ELSE IF "StatefulPartitionedCall" \notin self.graph
    THEN Err("Unavailable: StatefulPartitionedCall")
    ELSE IF Forward(self.session, slice.px) = None THEN Err("session run failed")
    ELSE [kind |-> "Ok", code |-> "", cls |-> Forward(self.session, slice.px)]

(*************************** call slots ************************************)
Calls == 1..NumCalls

AllStages == <<"fetch", "decode", "resize", "execute", "maplabel">>

NoSlice == [len |-> 0, px |-> "", scale |-> 0]

\* A slot no call occupies.
IdleCall ==
    [pc |-> "idle", entry |-> "none", adapter |-> "none", arg |-> "",
     arg_slice |-> NoSlice, val |-> "", slice |-> NoSlice, output |-> <<>>,
     t_url |-> TimerNew, t_load |-> TimerNew, t_resize |-> TimerNew, t_run |-> TimerNew,
     stages |-> <<>>, failed |-> "none", result |-> NoResult, response |-> None,
     fetch_t0 |-> None, fetch_spent |-> None]

\* A slot the specification does not use.
OffCall == [IdleCall EXCEPT !.pc = "off"]

\* The call ends: its result goes to the caller.
Finish(call, stage, res) ==
    [call EXCEPT !.pc = "done", !.result = res, !.failed = stage,
                 !.val = "", !.slice = NoSlice]

\* The entry points a call passes through on its way back, innermost first.
Depth(entry) ==
    CASE entry = "url" -> 4
      [] entry = "raw" -> 3
      [] entry = "image" -> 2
      [] entry = "run" -> 1
      [] OTHER -> 0

\* A mutant: run's timing is written where classify's belongs.
ClassifyReturn_swapped(cls, t) == [cls EXCEPT !.time_session_run = TimerDuration(t)]

\* run, line 165
RunReturn(cls, t) == [cls EXCEPT !.time_session_run = TimerDuration(t)]
\* classify, line 187
ClassifyReturn(cls, t) == [cls EXCEPT !.time_image_resize = TimerDuration(t)]
\* classify_from_raw, line 202
FromRawReturn(cls, t) == [cls EXCEPT !.time_image_load = TimerDuration(t)]
\* classify_from_url, line 220
FromUrlReturn(cls, t) == [cls EXCEPT !.time_url_fetch = TimerDuration(t)]

\* The Classification get_tag built, as each entry point on the stack hands it up.
Unwind(call, cls) ==
    LET d == Depth(call.entry)
        c1 == IF d >= 1 THEN RunReturn(cls, call.t_run) ELSE cls
        c2 == IF d >= 2 THEN ClassifyReturn(c1, call.t_resize) ELSE c1
        c3 == IF d >= 3 THEN FromRawReturn(c2, call.t_load) ELSE c2
    IN  IF d >= 4 THEN FromUrlReturn(c3, call.t_url) ELSE c3

(***************************** actions *************************************)
\* classify_from_raw up to the decode: the timer starts, the bytes are held.
EnterFromRaw(call, data) ==
    [call EXCEPT !.pc = "decode", !.val = data, !.t_load = TimerNewStart(now),
                 !.stages = Append(@, "decode")]

\* classify up to the resize.
EnterClassify(call, image) ==
    [call EXCEPT !.pc = "resize", !.val = image, !.t_resize = TimerNewStart(now),
                 !.stages = Append(@, "resize")]

\* run up to the session run.
EnterRun(call, slice) ==
    [call EXCEPT !.pc = "execute", !.val = "", !.slice = slice,
                 !.t_run = TimerNewStart(now), !.stages = Append(@, "execute")]

\* classify_from_url(url) is called: the timer starts and the GET is issued.
CallFromUrl(c, url) ==
    /\ calls[c].pc = "idle"
    /\ calls' = [calls EXCEPT ![c] =
            [@ EXCEPT !.pc = "fetch", !.entry = "url", !.arg = url, !.val = url,
                      !.t_url = TimerNewStart(now), !.stages = <<"fetch">>,
                      !.fetch_t0 = Some(mono)]]
    /\ UNCHANGED <<classifier, fs, now, mono, built>>

\* The GET and the body read end; on success classify_from_raw is entered.
FetchDone(c) ==
    /\ calls[c].pc = "fetch"
    /\ LET call == calls[c]
           r == FetchStage(call.val)
       IN  calls' = [calls EXCEPT ![c] =
             IF r.kind # "Ok" THEN Finish(call, "fetch", r)
             ELSE EnterFromRaw(
                    [call EXCEPT !.t_url = TimerStop(@, now),
                                 !.fetch_spent = Some(mono - Unwrap(call.fetch_t0))],
                    Unwrap(r.cls))]
    /\ UNCHANGED <<classifier, fs, now, mono, built>>

\* classify_from_raw(data) is called.
CallFromRaw(c, data) ==
    /\ calls[c].pc = "idle"
    /\ calls' = [calls EXCEPT ![c] =
            EnterFromRaw([@ EXCEPT !.entry = "raw", !.arg = data], data)]
    /\ UNCHANGED <<classifier, fs, now, mono, built>>

\* image::load_from_memory ends; on success classify is entered.
DecodeDone(c) ==
    /\ calls[c].pc = "decode"
    /\ LET call == calls[c]
           r == DecodeStage(call.val)
       IN  calls' = [calls EXCEPT ![c] =
             IF r.kind # "Ok" THEN Finish(call, "decode", r)
             ELSE EnterClassify([call EXCEPT !.t_load = TimerStop(@, now)],
                                Unwrap(r.cls))]
    /\ UNCHANGED <<classifier, fs, now, mono, built>>

\* classify(image) is called.
CallClassify(c, image) ==
    /\ calls[c].pc = "idle"
    /\ calls' = [calls EXCEPT ![c] =
            EnterClassify([@ EXCEPT !.entry = "image", !.arg = image], image)]
    /\ UNCHANGED <<classifier, fs, now, mono, built>>

\* The resize and normalisation end (they cannot fail); run is entered.
ResizeDone(c) ==
    /\ calls[c].pc = "resize"
    /\ calls' = [calls EXCEPT ![c] =
            EnterRun([@ EXCEPT !.t_resize = TimerStop(@, now)], Preprocess(calls[c].val))]
    /\ UNCHANGED <<classifier, fs, now, mono, built>>

\* run(image) is called with a slice of floats.
CallRun(c, slice) ==
    /\ calls[c].pc = "idle"
    /\ calls' = [calls EXCEPT ![c] =
            EnterRun([@ EXCEPT !.entry = "run", !.arg = slice.px,
                               !.arg_slice = slice], slice)]
    /\ UNCHANGED <<classifier, fs, now, mono, built>>

\* The tensor is built and the session run ends; on success get_tag is entered.
ExecuteDone(c) ==
    /\ calls[c].pc = "execute"
    /\ LET call == calls[c]
           r == ExecuteStage(classifier, call.slice)
       IN  calls' = [calls EXCEPT ![c] =
             IF r.kind # "Ok" THEN Finish(call, "execute", r)
             ELSE [call EXCEPT !.pc = "maplabel", !.slice = NoSlice,
                               !.output = Unwrap(r.cls),
                               !.t_run = TimerStop(@, now),
                               !.stages = Append(@, "maplabel")]]
    /\ UNCHANGED <<classifier, fs, now, mono, built>>

\* get_tag ends, and on success every entry point on the stack adds its timing.
MapLabelStep(c) ==
    /\ calls[c].pc = "maplabel"
    /\ LET call == calls[c]
           r == GetTag(classifier, fs, call.output)
       IN  calls' = [calls EXCEPT ![c] =
             IF r.kind # "Ok" THEN Finish(call, "maplabel", r)
             ELSE Finish(call, "none", Ok(Unwind(call, Unwrap(r.cls))))]

\* A mutant: the call leaves another tags path behind when the lookup fails.
MapLabelDone_repoint(c) ==
    /\ MapLabelStep(c)
    /\ classifier' =
         IF GetTag(classifier, fs, calls[c].output).kind = "Ok" THEN classifier
         ELSE [classifier EXCEPT !.tags = "labels3.txt"]
    /\ UNCHANGED <<fs, now, mono, built>>

\* get_tag takes &self: no field of the classifier is assigned.
MapLabelDone(c) ==
    /\ MapLabelStep(c)
    /\ UNCHANGED <<classifier, fs, now, mono, built>>

\* The caller has the result; the slot is free for the next call.
Return(c) ==
    /\ calls[c].pc = "done"
    /\ calls[c].adapter = "none"
    /\ calls' = [calls EXCEPT ![c] = IdleCall]
    /\ UNCHANGED <<classifier, fs, now, mono, built>>

(***************************** adapters ************************************)
\* http::response::Builder: the status a response has unless one is set
DefaultStatus == 200
ResponseBuilder == [status |-> DefaultStatus]
WithStatus(b, st) == [b EXCEPT !.status = st]
WithBody(b, body) == [status |-> b.status, body |-> body]

\* serde_json::to_string of a Classification: a non-finite f32 is written null
ToJson(cls) ==
    [tag |-> cls.tag,
     probability |-> IF IsNaN(cls.probability) THEN <<"null">>
                     ELSE <<"number", cls.probability>>,
     time_url_fetch |-> cls.time_url_fetch,
     time_image_load |-> cls.time_image_load,
     time_image_resize |-> cls.time_image_resize,
     time_session_run |-> cls.time_session_run]

\* format!("Classification failure: '{}'", err)
FailureMessage(code) == <<"Classification failure: '", code, "'">>

\* A request body the server could not read to the end.
BodyReadFailure == "<body read failed>"

\* aws_lambda handle_request: event.body() goes to classify_from_raw.
LambdaHttpRequest(c, body) ==
    /\ calls[c].pc = "idle"
    /\ calls' = [calls EXCEPT ![c] =
            EnterFromRaw([@ EXCEPT !.entry = "raw", !.adapter = "lambda_http",
                                   !.arg = body], body)]
    /\ UNCHANGED <<classifier, fs, now, mono, built>>

\* aws_lambda handle_request, lines 48-56: the response for a returned result.
LambdaResponse(res) ==
    IF res.kind = "Err"
    THEN WithBody(ResponseBuilder, FailureMessage(res.code))
    ELSE WithBody(WithStatus(ResponseBuilder, 200), ToJson(Unwrap(res.cls)))

LambdaHttpRespond(c) ==
    /\ calls[c].pc = "done"
    /\ calls[c].adapter = "lambda_http"
    /\ calls[c].result.kind \in {"Ok", "Err"}
    /\ calls' = [calls EXCEPT ![c] =
            [@ EXCEPT !.pc = "responded",
                      !.response = Some(LambdaResponse(calls[c].result))]]
    /\ UNCHANGED <<classifier, fs, now, mono, built>>

\* openfaas handle: the body is read (unwrap) and goes to classify_from_raw.
HyperRequest(c, body) ==
    /\ calls[c].pc = "idle"
    /\ calls' = [calls EXCEPT ![c] =
            IF body = BodyReadFailure
            THEN Finish([@ EXCEPT !.adapter = "hyper", !.arg = body], "none",
                        Panic("unwrap on Err: body"))
            ELSE EnterFromRaw([@ EXCEPT !.entry = "raw", !.adapter = "hyper",
                                        !.arg = body], body)]
    /\ UNCHANGED <<classifier, fs, now, mono, built>>

\* openfaas handle, lines 18-25
HyperResponse(res) ==
    IF res.kind = "Err"
    THEN WithBody(WithStatus(ResponseBuilder, 400), FailureMessage(res.code))
    ELSE WithBody(WithStatus(ResponseBuilder, 200), ToJson(Unwrap(res.cls)))

HyperRespond(c) ==
    /\ calls[c].pc = "done"
    /\ calls[c].adapter = "hyper"
    /\ calls[c].result.kind \in {"Ok", "Err"}
    /\ calls' = [calls EXCEPT ![c] =
            [@ EXCEPT !.pc = "responded",
                      !.response = Some(HyperResponse(calls[c].result))]]
    /\ UNCHANGED <<classifier, fs, now, mono, built>>

\* The response is sent; the server takes the next request.
NextRequest(c) ==
    /\ calls[c].pc = "responded"
    /\ calls' = [calls EXCEPT ![c] = IdleCall]
    /\ UNCHANGED <<classifier, fs, now, mono, built>>

(******************************* clock *************************************)
\* Time passes: the wall clock follows.
Tick ==
    /\ now < MaxClock
    /\ mono < MaxClock
    /\ now' = now + 1
    /\ mono' = mono + 1
    /\ UNCHANGED <<classifier, fs, calls, built>>

\* The wall clock is set (NTP step, administrator): Utc::now() is not monotonic.
ClockAdjust ==
    /\ \E t \in 0..MaxClock : t # now /\ now' = t
    /\ UNCHANGED <<classifier, fs, mono, calls, built>>

(*************************** specifications ********************************)
Init ==
    /\ built \in Deployments
    /\ classifier = built
    /\ fs = DeployedFS
    /\ now = 0
    /\ mono = 0
    /\ calls = [c \in Calls |-> IF c = 1 THEN IdleCall ELSE OffCall]

Next ==
    \/ \E c \in Calls :
        \/ \E url \in Urls : CallFromUrl(c, url)
        \/ \E data \in ByteBufs : CallFromRaw(c, data)
        \/ \E image \in Images : CallClassify(c, image)
        \/ \E slice \in Slices : CallRun(c, slice)
        \/ \E body \in ByteBufs : LambdaHttpRequest(c, body)
        \/ \E body \in ByteBufs \cup {BodyReadFailure} : HyperRequest(c, body)
        \/ FetchDone(c)
        \/ DecodeDone(c)
        \/ ResizeDone(c)
        \/ ExecuteDone(c)
        \/ MapLabelDone(c)
        \/ Return(c)
        \/ LambdaHttpRespond(c)
        \/ HyperRespond(c)
        \/ NextRequest(c)
    \/ Tick
    \/ ClockAdjust

Spec == Init /\ [][Next]_vars

InitShared ==
    /\ built \in Deployments
    /\ classifier = built
    /\ fs = DeployedFS
    /\ now = 0
    /\ mono = 0
    /\ calls = [c \in Calls |-> IdleCall]

NextShared ==
    \E c \in Calls :
        \/ \E url \in Urls : CallFromUrl(c, url)
        \/ \E data \in ByteBufs : CallFromRaw(c, data)
        \/ \E image \in Images : CallClassify(c, image)
        \/ \E slice \in Slices : CallRun(c, slice)
        \/ FetchDone(c)
        \/ DecodeDone(c)
        \/ ResizeDone(c)
        \/ ExecuteDone(c)
        \/ MapLabelDone(c)
        \/ Return(c)

SpecShared == InitShared /\ [][NextShared]_vars

Vectors == UNION {[1..n -> F32] : n \in 0..MaxVecLen}
TagFiles == {NoFile} \cup {File(l) : l \in UNION {[1..n -> LineVals] : n \in 0..MaxLines}}

InitTag ==
    /\ built = New(FullGraph, "labels3.txt")
    /\ classifier = built
    /\ \E f \in TagFiles : fs = [p \in Paths |-> IF p = built.tags THEN f ELSE NoFile]
    /\ now = 0
    /\ mono = 0
    /\ \E v \in Vectors :
         calls = [c \in Calls |->
                    IF c = 1
                    THEN [IdleCall EXCEPT !.pc = "maplabel", !.entry = "get_tag",
                                          !.output = v, !.stages = <<"maplabel">>]
                    ELSE OffCall]

NextTag == \E c \in Calls : MapLabelDone(c)

SpecTag == InitTag /\ [][NextTag]_vars

(***************************************************************************)
(* Properties.                                                             *)
(***************************************************************************)
Finished(c) == calls[c].pc \in {"done", "responded"}

\* The tags file the classifier points at.
TagsFile == fs[classifier.tags]

\* The index get_tag looks up for call c's output vector.
ChosenIndex(c) == Unwrap(MaxBy(calls[c].output))[1]

\* A call in which get_tag has run to its end on a non-empty vector and an
\* existing tags file.
Looked(c) ==
    /\ calls[c].pc = "done"
    /\ "maplabel" \in {calls[c].stages[k] : k \in 1..Len(calls[c].stages)}
    /\ calls[c].output # <<>>
    /\ TagsFile.exists

NaNFree(v) == \A k \in 1..Len(v) : ~IsNaN(v[k])

\* Zero-based index of the first, and of the last, entry equal to the maximum
\* of a non-empty NaN-free vector.
FirstMax(v) ==
    CHOOSE i \in 0..(Len(v) - 1) :
        /\ \A k \in 1..Len(v) : v[k] <= v[i + 1]
        /\ \A k \in 1..i : v[k] < v[i + 1]
LastMax(v) ==
    CHOOSE i \in 0..(Len(v) - 1) :
        /\ \A k \in 1..Len(v) : v[k] <= v[i + 1]
        /\ \A k \in (i + 2)..Len(v) : v[k] < v[i + 1]

\* C1: when the arg-max index has no line in the tags file, get_tag returns an
\* error value to the caller (it does not panic).
C1_MissingLabelIsError ==
    \A c \in Calls :
        (Looked(c) /\ ChosenIndex(c) >= Len(TagsFile.lines))
            => calls[c].result.kind = "Err"

\* C2, as claimed: on a non-empty NaN-free vector get_tag chooses the smallest
\* index holding the maximum, and a label returned is the line at that index.
C2_FirstMaxWins ==
    \A c \in Calls :
        (Looked(c) /\ NaNFree(calls[c].output)) =>
            /\ ChosenIndex(c) = FirstMax(calls[c].output)
            /\ calls[c].result.kind = "Ok" =>
                 Unwrap(calls[c].result.cls).tag
                    = TagsFile.lines[FirstMax(calls[c].output) + 1]

\* C2, amended: on a non-empty NaN-free vector get_tag chooses the LARGEST
\* index holding the maximum (the last-seen entry wins a tie); a label
\* returned is the line at that index and the probability the value there.
C2_LastMaxWins ==
    \A c \in Calls :
        (Looked(c) /\ NaNFree(calls[c].output)) =>
            /\ ChosenIndex(c) = LastMax(calls[c].output)
            /\ calls[c].result.kind = "Ok" =>
                 /\ Unwrap(calls[c].result.cls).tag
                      = TagsFile.lines[LastMax(calls[c].output) + 1]
                 /\ Unwrap(calls[c].result.cls).probability
                      = calls[c].output[LastMax(calls[c].output) + 1]

\* C2's case: a tie for the maximum between two positions whose lines differ,
\* and a label returned.
C2_Witness ==
    \E c \in Calls :
        /\ Looked(c)
        /\ NaNFree(calls[c].output)
        /\ calls[c].result.kind = "Ok"
        /\ FirstMax(calls[c].output) # LastMax(calls[c].output)
        /\ TagsFile.lines[FirstMax(calls[c].output) + 1]
             # TagsFile.lines[LastMax(calls[c].output) + 1]

\* a > b on f32: false when either side is NaN.
Gt(a, b) == ~IsNaN(a) /\ ~IsNaN(b) /\ a > b
UniqueMaxAt(v, i) == \A k \in 1..Len(v) : k # i + 1 => Gt(v[i + 1], v[k])
Readable(file) ==
    file.exists /\ \A k \in 1..Len(file.lines) : file.lines[k] # BadLine

\* C3: with a unique maximum at index i and a readable tags file of more than
\* i lines, the Classification has tag = line i and probability = value i.
C3_UniqueMaxLabel ==
    \A c \in Calls : \A i \in 0..(Len(calls[c].output) - 1) :
        (/\ Looked(c)
         /\ UniqueMaxAt(calls[c].output, i)
         /\ Readable(TagsFile)
         /\ Len(TagsFile.lines) > i)
            => /\ calls[c].result.kind = "Ok"
               /\ Unwrap(calls[c].result.cls).tag = TagsFile.lines[i + 1]
               /\ Unwrap(calls[c].result.cls).probability = calls[c].output[i + 1]

\* C3's case: three classes, the maximum in the middle, lines cat, dog, bird.
C3_Witness ==
    \E c \in Calls :
        /\ Looked(c)
        /\ Len(calls[c].output) = 3
        /\ UniqueMaxAt(calls[c].output, 1)
        /\ TagsFile.lines = <<"cat", "dog", "bird">>
        /\ calls[c].result.kind = "Ok"
        /\ Unwrap(calls[c].result.cls).tag = "dog"

\* Some line at a position at or before i does not parse.
BadLineUpTo(file, i) ==
    \E k \in 1..(i + 1) : k <= Len(file.lines) /\ file.lines[k] = BadLine

C4_ErrorsAreNot200 ==
    \A c \in Calls :
        calls[c].pc = "responded" =>
            /\ calls[c].result.kind = "Ok" =>
                 /\ Unwrap(calls[c].response).status = 200
                 /\ Unwrap(calls[c].response).body
                      = ToJson(Unwrap(calls[c].result.cls))
            /\ calls[c].result.kind = "Err" =>
                 /\ Unwrap(calls[c].response).status # 200
                 /\ Unwrap(calls[c].response).body
                      = FailureMessage(calls[c].result.code)

StagesOf(c) == {calls[c].stages[k] : k \in 1..Len(calls[c].stages)}

\* The GET of a URL ends in a network failure, a non-success status or a
\* truncated body read.
FetchGoesWrong(url) ==
    \/ ~Net(url).connect
    \/ ~IsSuccessStatus(Net(url).status)
    \/ ~Net(url).readOk

\* C5: when the GET ends in a network failure, a non-success status or a
\* truncated read, classify_from_url fails in its fetch stage with an error
\* and the body never reaches the decode stage.
C5_BadFetchIsFetchError ==
    \A c \in Calls :
        (/\ calls[c].entry = "url"
         /\ calls[c].pc \notin {"idle", "fetch"}
         /\ FetchGoesWrong(calls[c].arg))
            => /\ calls[c].pc = "done"
               /\ calls[c].result.kind = "Err"
               /\ calls[c].failed = "fetch"
               /\ "decode" \notin StagesOf(c)

\* The stages an entry point runs, in order.
FirstStage(entry) ==
    CASE entry = "url" -> 1
      [] entry = "raw" -> 2
      [] entry = "image" -> 3
      [] entry = "run" -> 4
      [] OTHER -> 5
Plan(entry) == SubSeq(AllStages, FirstStage(entry), Len(AllStages))
IsPrefix(s, t) == Len(s) <= Len(t) /\ s = SubSeq(t, 1, Len(s))

\* C7: the stages of a call run in the fixed order, each at most once, each
\* after the earlier ones succeeded; the first stage error is returned to the
\* caller at once, with no later stage run and no Classification; a
\* Classification comes only out of a complete run of the entry point's stages.
C7_StagesInOrderErrorsReturned ==
    \A c \in Calls :
        calls[c].entry \in {"url", "raw", "image", "run"} =>
            /\ IsPrefix(calls[c].stages, Plan(calls[c].entry))
            /\ calls[c].failed # "none" =>
                 /\ calls[c].pc \in {"done", "responded"}
                 /\ calls[c].stages[Len(calls[c].stages)] = calls[c].failed
                 /\ calls[c].result.kind = "Err"
                 /\ calls[c].result.cls = None
            /\ calls[c].result.kind = "Ok" =>
                 /\ calls[c].stages = Plan(calls[c].entry)
                 /\ calls[c].failed = "none"

\* C8: in a successful call each timing field of a stage the entry point ran
\* is the duration of that stage's own timer, and each other timing field is 0.
C8_TimingsAreTheTimers ==
    \A c \in Calls :
        (Finished(c) /\ calls[c].result.kind = "Ok" /\ calls[c].entry # "get_tag") =>
            LET k == Unwrap(calls[c].result.cls)
                e == calls[c].entry
            IN  /\ k.time_session_run = TimerDuration(calls[c].t_run)
                /\ k.time_image_resize =
                     IF e \in {"image", "raw", "url"}
                     THEN TimerDuration(calls[c].t_resize) ELSE 0
                /\ k.time_image_load =
                     IF e \in {"raw", "url"} THEN TimerDuration(calls[c].t_load) ELSE 0
                /\ k.time_url_fetch =
                     IF e = "url" THEN TimerDuration(calls[c].t_url) ELSE 0

\* C8's case: a successful classify_from_url call whose fetch timer and
\* session-run timer both measured a millisecond.
C8_Witness ==
    \E c \in Calls :
        /\ calls[c].pc = "done"
        /\ calls[c].entry = "url"
        /\ calls[c].result.kind = "Ok"
        /\ Unwrap(calls[c].result.cls).time_url_fetch = 1
        /\ Unwrap(calls[c].result.cls).time_session_run = 1

\* C10: a successful classify_from_url reports a time_url_fetch that is not
\* negative and not less than the time the fetch stage really took.
C10_FetchTimeMonotonic ==
    \A c \in Calls :
        (calls[c].entry = "url" /\ Finished(c) /\ calls[c].result.kind = "Ok") =>
            /\ Unwrap(calls[c].result.cls).time_url_fetch >= 0
            /\ Unwrap(calls[c].result.cls).time_url_fetch
                 >= NumMilliseconds(Unwrap(calls[c].fetch_spent))

\* What a caller sees of a result, timings aside.
Seen(res) ==
    [kind |-> res.kind, code |-> res.code,
     label |-> IF res.kind = "Ok"
               THEN <<Unwrap(res.cls).tag, Unwrap(res.cls).probability>> ELSE <<>>]

\* The result of each entry point on classifier self, as one composition.
OutcomeOfRun(self, fsys, slice) ==
    IF ExecuteStage(self, slice).kind # "Ok" THEN ExecuteStage(self, slice)
    ELSE GetTag(self, fsys, Unwrap(ExecuteStage(self, slice).cls))
OutcomeOfImage(self, fsys, image) == OutcomeOfRun(self, fsys, Preprocess(image))
OutcomeOfRaw(self, fsys, data) ==
    IF DecodeStage(data).kind # "Ok" THEN DecodeStage(data)
    ELSE OutcomeOfImage(self, fsys, Unwrap(DecodeStage(data).cls))
OutcomeOfUrl(self, fsys, url) ==
    IF FetchStage(url).kind # "Ok" THEN FetchStage(url)
    ELSE OutcomeOfRaw(self, fsys, Unwrap(FetchStage(url).cls))
OutcomeOf(self, fsys, call) ==
    CASE call.entry = "url" -> OutcomeOfUrl(self, fsys, call.arg)
      [] call.entry = "raw" -> OutcomeOfRaw(self, fsys, call.arg)
      [] call.entry = "image" -> OutcomeOfImage(self, fsys, call.arg)
      [] OTHER -> OutcomeOfRun(self, fsys, call.arg_slice)

\* C9: no call, failed or not, alone or overlapped, changes the classifier's
\* graph, session or tags path, and every finished call has the outcome the
\* same input has on the classifier as constructed.
C9_ClassifierUntouched ==
    /\ classifier = built
    /\ \A c \in Calls :
         calls[c].pc = "done" =>
            Seen(calls[c].result) = Seen(OutcomeOf(built, fs, calls[c]))

\* C9's case: one call has failed in its label lookup and another call
\* on the same classifier is in flight, about to do its own.
C9_Witness ==
    \E c1, c2 \in Calls :
        /\ c1 # c2
        /\ calls[c1].pc = "done"
        /\ calls[c1].failed = "maplabel"
        /\ calls[c2].pc = "maplabel"
        /\ Len(calls[c2].stages) > 2

====
